---- MODULE Spec2Model ----
(***************************************************************************)
(* Model of the 16-Bit Music Loop Tool step sequencer:                     *)
(*   Sequencer    (music-loop-tool/js/sequencer.js)                        *)
(*   AudioEngine  (audio.js, carried at the end of css/styles.css)         *)
(* together with the part of Tone.Transport the two classes drive: one     *)
(* repeating event per scheduleRepeat call, started and stopped by the     *)
(* audio engine, invoking Sequencer.onStep(time) once per sixteenth note.  *)
(* The lookahead scheduler of the implementation guide, which computes the *)
(* due times itself, is modelled beside it with its own state.             *)
(***************************************************************************)
EXTENDS Integers, Sequences, FiniteSets, TLC

\* ------------------------------------------------------------------ bounds
\* The program runs 8 rows x 16 steps; the model runs a smaller grid.
numRows == 2
numSteps == 2
\* Times handed around (due times of ticks, values of Tone.now()): 0..MaxTime.
MaxTime == 1
\* How many cells the callers keep switched on at a time.
MaxActive == 2
\* How many repeating events the transport holds at most.
MaxEvents == 2

Rows == 0 .. (numRows - 1)
Steps == 0 .. (numSteps - 1)
Times == 0 .. MaxTime

\* (row, step) arguments the callers may pass: every cell, and one pair for
\* each way of being out of range.
CellArgs ==
    (Rows \X Steps) \cup {<<-1, 0>>, <<numRows, 0>>, <<0, -1>>, <<0, numSteps>>}

VARIABLES
    \* Sequencer
    grid,               \* this.grid[row][step]
    activeStepsCache,   \* this.activeStepsCache: Map step -> array of rows
    currentStep,        \* this.currentStep
    isPlaying,          \* this.isPlaying
    scheduleId,         \* this.scheduleId (0 models null)
    \* AudioEngine
    audioInit,          \* outcome of the async AudioEngine.init(): "new" until it ends
    initialized,        \* AudioEngine.initialized
    audioIsPlaying,     \* AudioEngine.isPlaying
    tempo,              \* AudioEngine.tempo, as set on Tone.Transport.bpm
    \* Tone.Transport
    transportState,     \* "stopped" | "started"
    scheduled,          \* ids of the repeating events registered and not cleared
    staleTick,          \* a tick committed before Transport.stop(), not yet delivered
    \* what the last operation did, as its collaborators saw it
    call,               \* the operation and its arguments
    triggers,           \* audioEngine.scheduleNote(row, time) calls it made, in order
    events,             \* 'sequencer:step' events it dispatched, in order
    ret,                \* its return value
    transportCalls,     \* Tone.Transport.start() / stop() calls it made, in order
    dupTrigger,         \* it triggered a row already triggered since the last onStep
    \* history
    phase,              \* where the run is relative to start()/stop()
    lastNote,           \* step of the last notification of this run, -1 if none yet
    firedRows,          \* rows triggered since the last onStep (that onStep included)
    \* the implementation guide's scheduler (times in milliseconds)
    sequencerGrid,      \* sequencerGrid[row][step]
    cfgPlaying,         \* config.isPlaying
    cfgStep,            \* config.currentStep
    cfgBpm,             \* config.bpm
    nextNoteTime,       \* nextNoteTime
    currentTime,        \* audioContext.currentTime
    timerID,            \* a setTimeout(scheduler, 25) is pending
    gcall,              \* the guide function that ran last
    committed,          \* the scheduleNote calls it made, in order:
                        \*   <<beatNumber, time, rows handed to playSound>>
    startTime,          \* currentTime at the last start
    commits,            \* number of scheduleNote calls since the last start
    lastCommit          \* <<beatNumber, time>> of the last of them, <<>> if none

seqVars == <<grid, activeStepsCache, currentStep, isPlaying, scheduleId>>
audioVars == <<audioInit, initialized, audioIsPlaying, tempo>>
toneVars == <<transportState, scheduled, staleTick>>
obsVars == <<call, triggers, events, ret, transportCalls, dupTrigger>>
histVars == <<phase, lastNote, firedRows>>
guideVars == <<sequencerGrid, cfgPlaying, cfgStep, cfgBpm, nextNoteTime, currentTime, timerID,
               gcall, committed, startTime, commits, lastCommit>>
vars == <<seqVars, audioVars, toneVars, obsVars, histVars, guideVars>>

\* ------------------------------------------------------------------ helpers
\* The operation, the time it was given or read (0 when it has none), and
\* whether the transport delivered it from before a stop.
Call(op, time, stale) == [op |-> op, time |-> time, stale |-> stale]

InRange(row, step) == row >= 0 /\ row < numRows /\ step >= 0 /\ step < numSteps

EmptyGrid == [r \in Rows |-> [s \in Steps |-> FALSE]]

\* Map.get(step) with the "|| []" of the callers that need an array.
CacheGet(cache, step) == IF step \in DOMAIN cache THEN cache[step] ELSE <<>>

SeqRange(q) == {q[i] : i \in 1 .. Len(q)}

Includes(q, x) == \E i \in 1 .. Len(q) : q[i] = x

RECURSIVE Filter(_, _)
Filter(q, x) ==
    IF q = <<>> THEN <<>>
    ELSE (IF Head(q) = x THEN <<>> ELSE <<Head(q)>>) \o Filter(Tail(q), x)

\* The inner loop of updateActiveStepsCache: rows row..numRows-1 active at step,
\* pushed in increasing row order.
RECURSIVE ActiveRowsFrom(_, _, _)
ActiveRowsFrom(g, step, row) ==
    IF row >= numRows THEN <<>>
    ELSE (IF g[row][step] THEN <<row>> ELSE <<>>) \o ActiveRowsFrom(g, step, row + 1)

\* Sequencer.updateActiveStepsCache: clear, then one entry per step that has
\* at least one active row.
updateActiveStepsCache(g) ==
    [s \in {t \in Steps : ActiveRowsFrom(g, t, 0) # <<>>} |-> ActiveRowsFrom(g, s, 0)]

\* Map.set / Map.delete on the cache.
CacheSet(cache, step, rows) ==
    [s \in (DOMAIN cache) \cup {step} |-> IF s = step THEN rows ELSE cache[s]]

CacheDelete(cache, step) ==
    [s \in (DOMAIN cache) \ {step} |-> cache[s]]

\* updateActiveStepCache with the entry stored under the row instead of the step.
updateActiveStepCache_rowKey(g, cache, row, step) ==
    LET activeRows == CacheGet(cache, step) IN
    IF g[row][step]
    THEN IF ~Includes(activeRows, row)
         THEN CacheSet(cache, row, Append(activeRows, row))
         ELSE cache
    ELSE LET kept == Filter(activeRows, row) IN
         IF Len(kept) > 0 THEN CacheSet(cache, row, kept)
         ELSE CacheDelete(cache, row)

\* updateActiveStepCache without its includes() test: the row is pushed again.
updateActiveStepCache_push(g, cache, row, step) ==
    LET activeRows == CacheGet(cache, step) IN
    IF g[row][step]
    THEN CacheSet(cache, step, Append(activeRows, row))
    ELSE LET kept == Filter(activeRows, row) IN
         IF Len(kept) > 0 THEN CacheSet(cache, step, kept)
         ELSE CacheDelete(cache, step)

\* updateActiveStepCache with its includes() test inverted.
updateActiveStepCache_includesInverted(g, cache, row, step) ==
    LET activeRows == CacheGet(cache, step) IN
    IF g[row][step]
    THEN IF Includes(activeRows, row)
         THEN CacheSet(cache, step, Append(activeRows, row))
         ELSE cache
    ELSE LET kept == Filter(activeRows, row) IN
         IF Len(kept) > 0 THEN CacheSet(cache, step, kept)
         ELSE CacheDelete(cache, step)

\* updateActiveStepCache that stores the filtered entry even when it is empty.
updateActiveStepCache_keepEmpty(g, cache, row, step) ==
    LET activeRows == CacheGet(cache, step) IN
    IF g[row][step]
    THEN IF ~Includes(activeRows, row)
         THEN CacheSet(cache, step, Append(activeRows, row))
         ELSE cache
    ELSE CacheSet(cache, step, Filter(activeRows, row))

\* updateActiveStepCache with the removal branch lost: a row switched off stays
\* in its entry.
updateActiveStepCache_keep(g, cache, row, step) ==
    LET activeRows == CacheGet(cache, step) IN
    IF g[row][step] /\ ~Includes(activeRows, row)
    THEN CacheSet(cache, step, Append(activeRows, row))
    ELSE cache

\* Sequencer.updateActiveStepCache(row, step), on the grid g already written.
updateActiveStepCache(g, cache, row, step) ==
    LET activeRows == CacheGet(cache, step) IN
    IF g[row][step]
    THEN IF ~Includes(activeRows, row)
         THEN CacheSet(cache, step, Append(activeRows, row))
         ELSE cache
    ELSE LET kept == Filter(activeRows, row) IN
         IF Len(kept) > 0 THEN CacheSet(cache, step, kept)
         ELSE CacheDelete(cache, step)

\* A bpm argument: a finite number, or one of the non-finite values of a
\* JavaScript number.
Bpm(n) == <<"number", n>>
NaN == <<"NaN", 0>>
Infinity == <<"Infinity", 0>>

\* AudioEngine constructor: this.tempo = 120.
DefaultTempo == 120

\* The guide's config: bpm: 120.
GuideBpm == 120

Bool2Str(b) == IF b THEN "true" ELSE "false"

\* Number of cells of g that are on.
ActiveCount(g) == Cardinality({c \in Rows \X Steps : g[c[1]][c[2]]})

\* The callers switch a further cell on only below MaxActive.
MaySwitchOn(row, step) ==
    (InRange(row, step) /\ ~grid[row][step]) => ActiveCount(grid) < MaxActive


\* ------------------------------------------------------------------ Init
\* new AudioEngine(); new Sequencer(audioEngine): nothing initialized, empty grid,
\* empty cache, stopped.
Init ==
    /\ grid = EmptyGrid
    /\ activeStepsCache = <<>>
    /\ currentStep = -1
    /\ isPlaying = FALSE
    /\ scheduleId = 0
    /\ audioInit = "new"
    /\ initialized = FALSE
    /\ audioIsPlaying = FALSE
    /\ tempo = Bpm(DefaultTempo)
    /\ transportState = "stopped"
    /\ scheduled = {}
    /\ staleTick = FALSE
    /\ call = Call("new", 0, FALSE)
    /\ triggers = <<>>
    /\ events = <<>>
    /\ ret = "undefined"
    /\ transportCalls = <<>>
    /\ phase = "idle"
    /\ lastNote = -1
    /\ firedRows = {}
    /\ dupTrigger = FALSE
    /\ sequencerGrid = EmptyGrid
    /\ cfgPlaying = FALSE
    /\ cfgStep = 0
    /\ cfgBpm = GuideBpm
    /\ nextNoteTime = 0
    /\ currentTime = 0
    /\ timerID = FALSE
    /\ gcall = "new"
    /\ committed = <<>>
    /\ startTime = 0
    /\ commits = 0
    /\ lastCommit = <<>>

\* What the operation did; an onStep opens a new occurrence of its step. No
\* operation of the Sequencer touches the guide's scheduler.
ObserveAll(c, t, e, r, tc) ==
    /\ UNCHANGED guideVars
    /\ call' = c
    /\ triggers' = t
    /\ events' = e
    /\ ret' = r
    /\ transportCalls' = tc
    /\ dupTrigger' =
          \/ \E i, j \in 1 .. Len(t) : i # j /\ t[i][1] = t[j][1]
          \/ c.op # "onStep" /\ \E i \in 1 .. Len(t) : t[i][1] \in firedRows

\* An operation that does not start or stop the transport.
Observe(c, t, e, r) == ObserveAll(c, t, e, r, <<>>)

\* ------------------------------------------------------------------ AudioEngine
\* async init() sets nothing the sequencer reads before its awaits are over;
\* until then the engine is as constructed ("new"), and other calls interleave.
\* It completes: Tone.start() and loadSamples() resolved, initialized = true.
audioInitDone ==
    /\ audioInit = "new"
    /\ audioInit' = "ready"
    /\ initialized' = TRUE
    /\ Observe(Call("audioInitDone", 0, FALSE), <<>>, <<>>, "true")
    /\ UNCHANGED <<seqVars, audioIsPlaying, tempo, toneVars, histVars>>

\* ... or one of them rejected: the catch returns false, initialized stays false.
audioInitFail ==
    /\ audioInit = "new"
    /\ audioInit' = "failed"
    /\ Observe(Call("audioInitFail", 0, FALSE), <<>>, <<>>, "false")
    /\ UNCHANGED <<seqVars, initialized, audioIsPlaying, tempo, toneVars, histVars>>

\* Tone.Transport.start(): a transport already started stays as it is.
TransportStart(state) == IF state = "started" THEN state ELSE "started"

\* AudioEngine.start(): <<transport state, AudioEngine.isPlaying>> afterwards,
\* and the calls it made on Tone.Transport.
audioStart(init, state, playing) ==
    IF ~init THEN <<state, playing, <<>>>>
    ELSE <<TransportStart(state), TRUE, <<"start">>>>

\* AudioEngine.stop(): <<transport state, AudioEngine.isPlaying>> afterwards,
\* and the calls it made on Tone.Transport.
audioStop(init, state, playing) ==
    IF ~init THEN <<state, playing, <<>>>>
    ELSE <<"stopped", FALSE, <<"stop">>>>

\* ------------------------------------------------------------------ Sequencer
\* Tone.Transport.scheduleRepeat: the id of the new event, one not in use.
NewEventId(ids) ==
    CHOOSE i \in 1 .. (Cardinality(ids) + 1) :
        i \notin ids /\ \A j \in 1 .. (Cardinality(ids) + 1) : j \notin ids => i <= j

\* init(): one more repeating event on the transport, currentStep reset, cache
\* rebuilt from the grid.
init ==
    /\ scheduled' = scheduled \cup {NewEventId(scheduled)}
    /\ scheduleId' = NewEventId(scheduled)
    /\ currentStep' = -1
    /\ activeStepsCache' = updateActiveStepsCache(grid)
    /\ Observe(Call("init", 0, FALSE), <<>>, <<>>, "undefined")
    /\ UNCHANGED <<grid, isPlaying, audioVars, transportState, staleTick, histVars>>

\* onStep without the wrap.
NextStep_noWrap(cur) == cur + 1

\* onStep, line 54.
NextStep(cur) == (cur + 1) % numSteps

\* The dispatch loop started one element late: the first row of the entry is
\* not triggered.
StepTriggers_skipFirst(cache, step, time) ==
    LET activeRows == CacheGet(cache, step) IN
    [i \in 1 .. (Len(activeRows) - 1) |-> <<activeRows[i + 1], time>>]

\* onStep, lines 57-62: one scheduleNote(row, time) per row of the cache entry.
StepTriggers(cache, step, time) ==
    LET activeRows == CacheGet(cache, step) IN
    [i \in 1 .. Len(activeRows) |-> <<activeRows[i], time>>]

TriggerRows(trig) == {trig[i][1] : i \in 1 .. Len(trig)}

\* onStep that drops the index entry it has dispatched.
onStep_consumes(time, stale) ==
    LET next == NextStep(currentStep)
        trig == StepTriggers(activeStepsCache, next, time) IN
    /\ currentStep' = next
    /\ activeStepsCache' = CacheDelete(activeStepsCache, next)
    /\ Observe(Call("onStep", time, stale), trig, <<next>>, "undefined")
    /\ phase' = CASE phase = "started" -> "running"
                  [] phase = "restarted" -> "firstR"
                  [] phase \in {"firstR", "running"} -> "running"
                  [] OTHER -> phase
    /\ lastNote' = IF isPlaying THEN next ELSE lastNote
    /\ firedRows' = TriggerRows(trig)
    /\ UNCHANGED <<grid, isPlaying, scheduleId, audioVars>>

\* onStep(time), as the transport's repeating event calls it.
onStep(time, stale) ==
    LET next == NextStep(currentStep)
        trig == StepTriggers(activeStepsCache, next, time) IN
    /\ currentStep' = next
    /\ Observe(Call("onStep", time, stale), trig, <<next>>, "undefined")
    /\ phase' = CASE phase = "started" -> "running"
                  [] phase = "restarted" -> "firstR"
                  [] phase \in {"firstR", "running"} -> "running"
                  [] OTHER -> phase
    /\ lastNote' = IF isPlaying THEN next ELSE lastNote
    /\ firedRows' = TriggerRows(trig)
    /\ UNCHANGED <<grid, activeStepsCache, isPlaying, scheduleId, audioVars>>

\* onStep(time) in which the k-th scheduleNote call throws (player.start on a
\* player whose sample did not load): the exception leaves the loop and onStep,
\* after currentStep was advanced and before dispatchStepEvent.
onStepThrows(time, k) ==
    LET next == NextStep(currentStep)
        trig == StepTriggers(activeStepsCache, next, time) IN
    /\ k \in 1 .. Len(trig)
    /\ currentStep' = next
    /\ Observe(Call("onStep", time, FALSE), SubSeq(trig, 1, k), <<>>, "throws")
    /\ phase' = CASE phase = "started" -> "running"
                  [] phase = "restarted" -> "firstR"
                  [] phase \in {"firstR", "running"} -> "running"
                  [] OTHER -> phase
    /\ firedRows' = TriggerRows(SubSeq(trig, 1, k))
    /\ UNCHANGED <<grid, activeStepsCache, isPlaying, scheduleId, audioVars, lastNote>>

\* The transport, started, reaches the next sixteenth note.
TransportTick ==
    /\ transportState = "started"
    /\ scheduled # {}
    /\ \E time \in Times : onStep(time, FALSE)
    /\ UNCHANGED toneVars

\* A tick during which one instrument's player fails to start.
FailingTick ==
    /\ transportState = "started"
    /\ scheduled # {}
    /\ initialized
    /\ \E time \in Times, k \in 1 .. numRows : onStepThrows(time, k)
    /\ UNCHANGED toneVars

\* A tick the transport's clock had committed before Transport.stop() is
\* delivered after it: Sequencer.onStep runs whatever isPlaying says.
StaleTick ==
    /\ staleTick
    /\ \E time \in Times : onStep(time, TRUE)
    /\ staleTick' = FALSE
    /\ UNCHANGED <<transportState, scheduled>>

\* The immediate trigger without its "&& this.grid[row][step]": switching a
\* cell off at the playing step sounds it too.
ImmediateTrigger_always(playing, cur, g, row, step, now) ==
    IF playing /\ cur = step THEN <<<<row, now>>>> ELSE <<>>

\* The immediate trigger without its "this.currentStep === step": switching on a
\* cell of any step while playing sounds it.
ImmediateTrigger_anyStep(playing, cur, g, row, step, now) ==
    IF playing /\ g[row][step] THEN <<<<row, now>>>> ELSE <<>>

\* toggleStep without its immediate trigger.
ImmediateTrigger_never(playing, cur, g, row, step, now) == <<>>

\* toggleStep, lines 115-117: the immediate trigger.
ImmediateTrigger(playing, cur, g, row, step, now) ==
    IF playing /\ cur = step /\ g[row][step] THEN <<<<row, now>>>> ELSE <<>>

\* toggleStep that clamps its indices into the grid rather than rejecting them.
toggleStep_clamp(row, step, now) ==
    LET r == IF row < 0 THEN 0 ELSE IF row >= numRows THEN numRows - 1 ELSE row
        st == IF step < 0 THEN 0 ELSE IF step >= numSteps THEN numSteps - 1 ELSE step
        g == [grid EXCEPT ![r][st] = ~grid[r][st]]
        trig == ImmediateTrigger(isPlaying, currentStep, g, r, st, now) IN
    /\ grid' = g
    /\ activeStepsCache' = updateActiveStepCache(g, activeStepsCache, r, st)
    /\ Observe(Call("toggleStep", IF trig = <<>> THEN 0 ELSE now, FALSE),
               trig, <<>>, Bool2Str(g[r][st]))
    /\ firedRows' = firedRows \cup TriggerRows(trig)
    /\ UNCHANGED <<currentStep, isPlaying, scheduleId, audioVars, toneVars,
                   phase, lastNote>>

\* toggleStep that returns the state the cell had before the call.
toggleStep_returnsOld(row, step, now) ==
    IF InRange(row, step)
    THEN LET g == [grid EXCEPT ![row][step] = ~grid[row][step]]
             trig == ImmediateTrigger(isPlaying, currentStep, g, row, step, now) IN
         /\ grid' = g
         /\ activeStepsCache' = updateActiveStepCache(g, activeStepsCache, row, step)
         /\ Observe(Call("toggleStep", IF trig = <<>> THEN 0 ELSE now, FALSE),
                    trig, <<>>, Bool2Str(grid[row][step]))
         /\ firedRows' = firedRows \cup TriggerRows(trig)
         /\ UNCHANGED <<currentStep, isPlaying, scheduleId, audioVars, toneVars,
                        phase, lastNote>>
    ELSE /\ Observe(Call("toggleStep", 0, FALSE), <<>>, <<>>, "false")
         /\ UNCHANGED <<seqVars, audioVars, toneVars, histVars>>

\* toggleStep(row, step); now is Tone.now().
toggleStep(row, step, now) ==
    IF InRange(row, step)
    THEN LET g == [grid EXCEPT ![row][step] = ~grid[row][step]]
             trig == ImmediateTrigger(isPlaying, currentStep, g, row, step, now) IN
         /\ grid' = g
         /\ activeStepsCache' = updateActiveStepCache(g, activeStepsCache, row, step)
         /\ Observe(Call("toggleStep", IF trig = <<>> THEN 0 ELSE now, FALSE),
                    trig, <<>>, Bool2Str(g[row][step]))
         /\ firedRows' = firedRows \cup TriggerRows(trig)
         /\ UNCHANGED <<currentStep, isPlaying, scheduleId, audioVars, toneVars,
                        phase, lastNote>>
    ELSE /\ Observe(Call("toggleStep", 0, FALSE), <<>>, <<>>, "false")
         /\ UNCHANGED <<seqVars, audioVars, toneVars, histVars>>

\* Tone.now() is read only when the immediate trigger is issued.
ToggleStep ==
    \E c \in CellArgs :
        /\ MaySwitchOn(c[1], c[2])
        /\ \E now \in (IF isPlaying /\ currentStep = c[2] THEN Times ELSE {0}) :
              toggleStep(c[1], c[2], now)

\* setStep that writes the grid and leaves the index to a later rebuild.
setStep_gridOnly(row, step, state) ==
    IF InRange(row, step)
    THEN /\ grid' = [grid EXCEPT ![row][step] = state]
         /\ Observe(Call("setStep", 0, FALSE), <<>>, <<>>, "undefined")
         /\ UNCHANGED <<activeStepsCache, currentStep, isPlaying, scheduleId, audioVars,
                        toneVars, histVars>>
    ELSE /\ Observe(Call("setStep", 0, FALSE), <<>>, <<>>, "undefined")
         /\ UNCHANGED <<seqVars, audioVars, toneVars, histVars>>

\* setStep(row, step, state)
setStep(row, step, state) ==
    IF InRange(row, step)
    THEN LET g == [grid EXCEPT ![row][step] = state] IN
         /\ grid' = g
         /\ activeStepsCache' = updateActiveStepCache(g, activeStepsCache, row, step)
         /\ Observe(Call("setStep", 0, FALSE),
                    <<>>, <<>>, "undefined")
         /\ UNCHANGED <<currentStep, isPlaying, scheduleId, audioVars, toneVars, histVars>>
    ELSE /\ Observe(Call("setStep", 0, FALSE),
                    <<>>, <<>>, "undefined")
         /\ UNCHANGED <<seqVars, audioVars, toneVars, histVars>>

SetStep ==
    \E c \in CellArgs, state \in BOOLEAN :
        /\ state => MaySwitchOn(c[1], c[2])
        /\ setStep(c[1], c[2], state)

\* getStep(row, step): reads the grid, changes nothing.
getStep(row, step) == IF InRange(row, step) THEN grid[row][step] ELSE FALSE

\* clearGrid that empties the grid and forgets the index.
clearGrid_keepIndex ==
    /\ grid' = EmptyGrid
    /\ Observe(Call("clearGrid", 0, FALSE), <<>>, <<>>, "undefined")
    /\ UNCHANGED <<activeStepsCache, currentStep, isPlaying, scheduleId, audioVars,
                   toneVars, histVars>>

\* clearGrid that ignores the call during playback.
clearGrid_whenStopped ==
    /\ grid' = IF isPlaying THEN grid ELSE EmptyGrid
    /\ activeStepsCache' = IF isPlaying THEN activeStepsCache ELSE <<>>
    /\ Observe(Call("clearGrid", 0, FALSE), <<>>, <<>>, "undefined")
    /\ UNCHANGED <<currentStep, isPlaying, scheduleId, audioVars, toneVars, histVars>>

\* clearGrid()
clearGrid ==
    /\ grid' = EmptyGrid
    /\ activeStepsCache' = <<>>
    /\ Observe(Call("clearGrid", 0, FALSE), <<>>, <<>>, "undefined")
    /\ UNCHANGED <<currentStep, isPlaying, scheduleId, audioVars, toneVars, histVars>>


\* Rows a caller may put in a pattern: all off, all on, and one of the wrong
\* length (its cells are never read).
RowAllOff == [i \in 1 .. numSteps |-> FALSE]
RowAllOn == [i \in 1 .. numSteps |-> TRUE]
RowShort == [i \in 1 .. (numSteps - 1) |-> TRUE]
PatternRows == {RowAllOff, RowAllOn, RowShort}

\* Patterns: every array of numRows such rows, and one array with a row missing.
PatternShort == [i \in 1 .. (numRows - 1) |-> RowAllOn]
Patterns == [1 .. numRows -> PatternRows] \cup {PatternShort}

\* The pattern has the configured dimensions in every row.
Matches(pattern) ==
    /\ Len(pattern) = numRows
    /\ \A i \in 1 .. Len(pattern) : Len(pattern[i]) = numSteps

\* setPattern, lines 198-202: the rows of the right length are copied, the
\* others are left as they were.
PatternGrid(g, pattern) ==
    [r \in Rows |->
        IF Len(pattern[r + 1]) = numSteps
        THEN [s \in Steps |-> pattern[r + 1][s + 1]]
        ELSE g[r]]

\* setPattern(pattern) with an array.
setPattern(pattern) ==
    /\ IF Len(pattern) = numRows
       THEN LET g == PatternGrid(grid, pattern) IN
            /\ grid' = g
            /\ activeStepsCache' = updateActiveStepsCache(g)
       ELSE UNCHANGED <<grid, activeStepsCache>>
    /\ Observe(Call("setPattern", 0, FALSE), <<>>, <<>>, "undefined")
    /\ UNCHANGED <<currentStep, isPlaying, scheduleId, audioVars, toneVars, histVars>>

SetPattern ==
    \E pattern \in Patterns :
        /\ Len(pattern) = numRows => ActiveCount(PatternGrid(grid, pattern)) <= MaxActive
        /\ setPattern(pattern)

\* setPattern(pattern) with something that is no array.
setPatternNoArray ==
    /\ Observe(Call("setPattern", 0, FALSE), <<>>, <<>>, "undefined")
    /\ UNCHANGED <<seqVars, audioVars, toneVars, histVars>>

\* start() that rebuilds its state as init() does, from an emptied grid.
start_fresh ==
    LET a == audioStart(initialized, transportState, audioIsPlaying) IN
    /\ transportState' = a[1]
    /\ audioIsPlaying' = a[2]
    /\ isPlaying' = TRUE
    /\ grid' = EmptyGrid
    /\ activeStepsCache' = <<>>
    /\ ObserveAll(Call("start", 0, FALSE), <<>>, <<>>, "undefined", a[3])
    /\ phase' = IF isPlaying THEN phase
                ELSE IF call.op = "stop" THEN "restarted" ELSE "started"
    /\ lastNote' = IF isPlaying THEN lastNote ELSE -1
    /\ UNCHANGED <<currentStep, scheduleId, audioInit,
                   initialized, tempo, scheduled, staleTick, firedRows>>

\* start()
start ==
    LET a == audioStart(initialized, transportState, audioIsPlaying) IN
    /\ transportState' = a[1]
    /\ audioIsPlaying' = a[2]
    /\ isPlaying' = TRUE
    /\ ObserveAll(Call("start", 0, FALSE), <<>>, <<>>, "undefined", a[3])
    /\ phase' = IF isPlaying THEN phase
                ELSE IF call.op = "stop" THEN "restarted" ELSE "started"
    /\ lastNote' = IF isPlaying THEN lastNote ELSE -1
    /\ UNCHANGED <<grid, activeStepsCache, currentStep, scheduleId, audioInit,
                   initialized, tempo, scheduled, staleTick, firedRows>>

\* stop() that returns at once when the sequencer is not playing.
stop_guarded(late) ==
    IF isPlaying
    THEN LET a == audioStop(initialized, transportState, audioIsPlaying) IN
         /\ transportState' = a[1]
         /\ audioIsPlaying' = a[2]
         /\ staleTick' = (staleTick \/
                          (late /\ initialized /\ transportState = "started" /\ scheduled # {}))
         /\ isPlaying' = FALSE
         /\ currentStep' = -1
         /\ ObserveAll(Call("stop", 0, FALSE), <<>>, <<-1>>, "undefined", a[3])
         /\ phase' = "stopped"
         /\ lastNote' = -1
         /\ firedRows' = {}
         /\ UNCHANGED <<grid, activeStepsCache, scheduleId, audioInit, initialized, tempo,
                        scheduled>>
    ELSE /\ Observe(Call("stop", 0, FALSE), <<>>, <<>>, "undefined")
         /\ UNCHANGED <<seqVars, audioVars, toneVars, histVars>>

\* stop(); late: the transport's clock had already committed a tick that lies
\* before the stop and has not reached its callback yet.
stop(late) ==
    LET a == audioStop(initialized, transportState, audioIsPlaying) IN
    /\ transportState' = a[1]
    /\ audioIsPlaying' = a[2]
    /\ staleTick' = (staleTick \/
                     (late /\ initialized /\ transportState = "started" /\ scheduled # {}))
    /\ isPlaying' = FALSE
    /\ currentStep' = -1
    /\ ObserveAll(Call("stop", 0, FALSE), <<>>, <<-1>>, "undefined", a[3])
    /\ phase' = "stopped"
    /\ lastNote' = -1
    /\ firedRows' = {}
    /\ UNCHANGED <<grid, activeStepsCache, scheduleId, audioInit, initialized, tempo,
                   scheduled>>

Stop == \E late \in BOOLEAN : stop(late)

\* AudioEngine.setTempo(bpm): the tempo afterwards.
audioSetTempo(ready, old, bpm) == IF ~ready THEN old ELSE bpm

\* setTempo that rewinds the sequencer to the start of the loop.
setTempo_rewind(bpm) ==
    /\ tempo' = audioSetTempo(initialized, tempo, bpm)
    /\ currentStep' = -1
    /\ Observe(Call("setTempo", 0, FALSE), <<>>, <<>>, "undefined")
    /\ UNCHANGED <<grid, activeStepsCache, isPlaying, scheduleId, audioInit, initialized,
                   audioIsPlaying, toneVars, histVars>>

\* setTempo(bpm)
setTempo(bpm) ==
    /\ tempo' = audioSetTempo(initialized, tempo, bpm)
    /\ Observe(Call("setTempo", 0, FALSE), <<>>, <<>>, "undefined")
    /\ UNCHANGED <<seqVars, audioInit, initialized, audioIsPlaying, toneVars, histVars>>

\* Tempos a caller may pass: two usable ones, zero, a negative one and the
\* non-finite ones.
SlowTempo == 90
BpmArgs == {Bpm(DefaultTempo), Bpm(SlowTempo), Bpm(0), Bpm(-1), NaN, Infinity}

SetTempo == \E bpm \in BpmArgs : setTempo(bpm)

\* ------------------------------------------------------------------ specification
\* The application initializes its sequencer once (ui.js, init).
SequencerInit == scheduled = {} /\ init

Next ==
    \/ audioInitDone
    \/ audioInitFail
    \/ SequencerInit
    \/ TransportTick
    \/ StaleTick
    \/ ToggleStep
    \/ SetStep
    \/ clearGrid
    \/ SetPattern
    \/ setPatternNoArray
    \/ start
    \/ Stop

Spec == Init /\ [][Next]_vars

\* The same program with instruments whose triggering may fail.
FaultNext == Next \/ FailingTick

FaultSpec == Init /\ [][FaultNext]_vars

\* The transport and the tempo control, on the grid as constructed.
TempoNext ==
    \/ audioInitDone
    \/ audioInitFail
    \/ SequencerInit
    \/ TransportTick
    \/ start
    \/ stop(FALSE)
    \/ SetTempo

TempoSpec == Init /\ [][TempoNext]_vars

\* getStep(row, step) as a call: the cell is returned, nothing is written.
GetStep ==
    \E c \in CellArgs :
        /\ Observe(Call("getStep", 0, FALSE), <<>>, <<>>, Bool2Str(getStep(c[1], c[2])))
        /\ UNCHANGED <<seqVars, audioVars, toneVars, histVars>>

\* Playback with every operation on the pattern and the tempo.
ControlNext ==
    \/ audioInitDone
    \/ SequencerInit
    \/ TransportTick
    \/ start
    \/ stop(FALSE)
    \/ ToggleStep
    \/ SetStep
    \/ clearGrid
    \/ SetPattern
    \/ GetStep
    \/ SetTempo

ControlSpec == Init /\ [][ControlNext]_vars

\* cleanup(): the event scheduleId names is cleared from the transport.
cleanup ==
    /\ IF scheduleId # 0
       THEN /\ scheduled' = scheduled \ {scheduleId}
            /\ scheduleId' = 0
       ELSE UNCHANGED <<scheduled, scheduleId>>
    /\ Observe(Call("cleanup", 0, FALSE), <<>>, <<>>, "undefined")
    /\ UNCHANGED <<grid, activeStepsCache, currentStep, isPlaying, audioVars,
                   transportState, staleTick, histVars>>

\* init() whenever a caller chooses, up to MaxEvents events on the transport.
Reinit == Cardinality(scheduled) < MaxEvents /\ init

\* The sequencer's life cycle: init() and cleanup() in any order, with playback.
LifecycleNext ==
    \/ audioInitDone
    \/ Reinit
    \/ cleanup
    \/ TransportTick
    \/ start
    \/ stop(FALSE)

LifecycleSpec == Init /\ [][LifecycleNext]_vars

\* The tempo slider of the page: its range as the README documents it, its
\* value a string of decimal digits.
MinTempo == 60
MaxTempo == 180

RECURSIVE ToDigits(_)
ToDigits(n) == IF n < 10 THEN <<n>> ELSE Append(ToDigits(n \div 10), n % 10)

SliderValues == {ToDigits(n) : n \in {MinTempo, SlowTempo, DefaultTempo, MaxTempo}}

\* parseInt: the digits read in the given radix.
RECURSIVE ParseRadix(_, _, _)
ParseRadix(str, radix, acc) ==
    IF str = <<>> THEN acc ELSE ParseRadix(Tail(str), radix, acc * radix + Head(str))

\* parseInt(tempoSlider.value, 16)
ParseInt_hex(str) == ParseRadix(str, 16, 0)

\* parseInt(tempoSlider.value)
ParseInt(str) == ParseRadix(str, 10, 0)

\* ui.js, isInitialized: set once audioEngine.init() resolved true and
\* sequencer.init() ran.
isInitialized == initialized /\ scheduled # {}

\* The slider's input handler (ui.js 84-90).
tempoSliderInput(value) ==
    IF isInitialized
    THEN setTempo(Bpm(ParseInt(value)))
    ELSE UNCHANGED vars

TempoSliderInput == \E value \in SliderValues : tempoSliderInput(value)

\* The application as far as the tempo goes: setTempo is reached through the
\* slider only.
AppTempoNext ==
    \/ audioInitDone
    \/ audioInitFail
    \/ SequencerInit
    \/ TransportTick
    \/ start
    \/ stop(FALSE)
    \/ TempoSliderInput

AppTempoSpec == Init /\ [][AppTempoNext]_vars


\* ------------------------------------------------------------------ the guide's scheduler
\* Times are in milliseconds. scheduleAheadTime (0.1 s) and the setTimeout
\* interval (25 ms).
ScheduleAheadMs == 100
TimerMs == 25
\* How many timer intervals late a timer may fire, and where the clock stops.
MaxLate == 8
MaxClockMs == 500

\* nextNote with the beat split in eight: thirty-second notes.
SixteenthMs_eighthOfBeat == (60000 \div cfgBpm) \div 8

\* nextNote, lines 70-73: 0.25 * secondsPerBeat, secondsPerBeat = 60.0 / config.bpm.
SixteenthMs == (60000 \div cfgBpm) \div 4

\* nextNote wrapping one step early: the last step of the loop is never played.
NextBeat_wrapEarly(step) == IF step + 1 >= numSteps - 1 THEN 0 ELSE step + 1

\* nextNote, lines 76-79.
NextBeat(step) == IF step + 1 = numSteps THEN 0 ELSE step + 1

\* scheduleNote(beatNumber, time): playSound(row, time) for the active rows in
\* row order, then updatePlayhead(beatNumber).
scheduleNote(g, beatNumber, time) == <<beatNumber, time, ActiveRowsFrom(g, beatNumber, 0)>>

\* The while loop of a scheduler that, finding itself late, drops the steps
\* whose due time has passed and commits only those still ahead.
RECURSIVE schedulerLoop_jump(_, _, _, _, _)
schedulerLoop_jump(g, step, next, now, acc) ==
    IF next < now + ScheduleAheadMs
    THEN IF next < now
         THEN schedulerLoop_jump(g, NextBeat(step), next + SixteenthMs, now, acc)
         ELSE schedulerLoop_jump(g, NextBeat(step), next + SixteenthMs, now,
                                 Append(acc, scheduleNote(g, step, next)))
    ELSE <<acc, step, next>>

\* The while loop of scheduler(), lines 99-102, from config.currentStep = step
\* and nextNoteTime = next at audioContext.currentTime = now:
\* <<scheduleNote calls, config.currentStep, nextNoteTime>> at its end.
RECURSIVE schedulerLoop(_, _, _, _, _)
schedulerLoop(g, step, next, now, acc) ==
    IF next < now + ScheduleAheadMs
    THEN schedulerLoop(g, NextBeat(step), next + SixteenthMs, now,
                       Append(acc, scheduleNote(g, step, next)))
    ELSE <<acc, step, next>>

SeqVarsAll == <<seqVars, audioVars, toneVars, obsVars, histVars>>

\* scheduler(), run at currentTime = now from config.currentStep = step and
\* nextNoteTime = next; it re-arms its timer.
scheduler(op, step, next, now) ==
    LET run == schedulerLoop(sequencerGrid, step, next, now, <<>>) IN
    /\ committed' = run[1]
    /\ cfgStep' = run[2]
    /\ nextNoteTime' = run[3]
    /\ timerID' = TRUE
    /\ gcall' = op
    /\ lastCommit' = IF run[1] = <<>> THEN lastCommit
                      ELSE <<run[1][Len(run[1])][1], run[1][Len(run[1])][2]>>

\* togglePlay()
togglePlay ==
    /\ IF cfgPlaying
       THEN /\ timerID' = FALSE
            /\ cfgPlaying' = FALSE
            /\ gcall' = "stop"
            /\ committed' = <<>>
            /\ UNCHANGED <<cfgStep, nextNoteTime, startTime, commits, lastCommit>>
       ELSE /\ cfgPlaying' = TRUE
            /\ scheduler("start", 0, currentTime, currentTime)
            /\ startTime' = currentTime
            /\ commits' = Len(committed')
    /\ UNCHANGED <<sequencerGrid, cfgBpm, currentTime, SeqVarsAll>>

\* The pending timer fires, late intervals after it was due, and runs
\* scheduler().
TimerFires ==
    /\ timerID
    /\ \E late \in 0 .. MaxLate :
          LET now == currentTime + TimerMs * (1 + late) IN
          /\ now <= MaxClockMs
          /\ currentTime' = now
          /\ scheduler("scheduler", cfgStep, nextNoteTime, now)
          /\ commits' = commits + Len(committed')
    /\ UNCHANGED <<sequencerGrid, cfgPlaying, cfgBpm, startTime, SeqVarsAll>>

\* Time passes while nothing is scheduled.
ClockIdle ==
    /\ ~timerID
    /\ currentTime + TimerMs <= MaxClockMs
    /\ currentTime' = currentTime + TimerMs
    /\ gcall' = "idle"
    /\ committed' = <<>>
    /\ UNCHANGED <<sequencerGrid, cfgPlaying, cfgStep, cfgBpm, nextNoteTime, timerID,
                   startTime, commits, lastCommit, SeqVarsAll>>

\* The guide's toggleStep(row, step), on a cell of the grid.
guideToggleStep ==
    \E row \in Rows, step \in Steps :
        /\ ~sequencerGrid[row][step] => ActiveCount(sequencerGrid) < MaxActive
        /\ sequencerGrid' = [sequencerGrid EXCEPT ![row][step] = ~sequencerGrid[row][step]]
        /\ gcall' = "toggleStep"
        /\ committed' = <<>>
        /\ UNCHANGED <<cfgPlaying, cfgStep, cfgBpm, nextNoteTime, currentTime, timerID,
                       startTime, commits, lastCommit, SeqVarsAll>>

GuideNext ==
    \/ togglePlay
    \/ TimerFires
    \/ ClockIdle
    \/ guideToggleStep

GuideSpec == Init /\ [][GuideNext]_vars

\* The tempo control of the guide (line 410): 60 to 200 BPM.
GuideMinBpm == 60
GuideMaxBpm == 200
GuideTempos == {GuideMinBpm, GuideBpm, GuideMaxBpm}

\* A tempo change that also re-times the step already computed, placing it one
\* new sixteenth note after the last committed one.
guideSetTempo_retime(bpm) ==
    /\ cfgBpm' = bpm
    /\ nextNoteTime' = IF lastCommit = <<>> THEN nextNoteTime
                        ELSE lastCommit[2] + (60000 \div bpm) \div 4
    /\ gcall' = "setTempo"
    /\ committed' = <<>>
    /\ UNCHANGED <<sequencerGrid, cfgPlaying, cfgStep, currentTime, timerID,
                   startTime, commits, lastCommit, SeqVarsAll>>

\* The tempo is changed: config.bpm = bpm, which nextNote reads at its next
\* call (line 70).
guideSetTempo(bpm) ==
    /\ cfgBpm' = bpm
    /\ gcall' = "setTempo"
    /\ committed' = <<>>
    /\ UNCHANGED <<sequencerGrid, cfgPlaying, cfgStep, nextNoteTime, currentTime, timerID,
                   startTime, commits, lastCommit, SeqVarsAll>>

GuideSetTempo == \E bpm \in GuideTempos : guideSetTempo(bpm)

\* The guide's scheduler under tempo changes, on the grid as created.
GuideTempoNext ==
    \/ togglePlay
    \/ TimerFires
    \/ ClockIdle
    \/ GuideSetTempo

GuideTempoSpec == Init /\ [][GuideTempoNext]_vars

\* ------------------------------------------------------------------ claims
ActiveRowSet(s) == {r \in Rows : grid[r][s]}

RowCount(trig, r) == Cardinality({i \in 1 .. Len(trig) : trig[i][1] = r})

\* C1: in every reachable state, for every step s the rows held in the cache
\* entry of s are exactly the rows r with grid[r][s] true, and a step with no
\* active row dispatches nothing.
C1_IndexConsistent ==
    \A s \in Steps :
        /\ SeqRange(CacheGet(activeStepsCache, s)) = ActiveRowSet(s)
        /\ (ActiveRowSet(s) = {} => \A t \in Times : StepTriggers(activeStepsCache, s, t) = <<>>)

\* A cell was just switched off while playing, leaving one step with every row
\* active and another with no entry.
C1_Witness ==
    /\ isPlaying
    /\ call.op = "toggleStep"
    /\ ret = "false"
    /\ \E s \in Steps : Len(CacheGet(activeStepsCache, s)) = numRows
    /\ \E s \in Steps : s \notin DOMAIN activeStepsCache

\* C2: the triggers one onStep issues are in increasing row order.
C2_RowOrder ==
    call.op = "onStep" =>
        \A i, j \in 1 .. Len(triggers) : i < j => triggers[i][1] < triggers[j][1]

\* C3: setPattern with a pattern whose row count or any row length mismatches
\* the configured dimensions changes no grid cell and no index entry.
C3_AllOrNothing ==
    [][\A pattern \in Patterns :
          (setPattern(pattern) /\ ~Matches(pattern)) =>
              (grid' = grid /\ activeStepsCache' = activeStepsCache)]_vars

\* C4: from stop() until the next start(), no trigger is issued and no
\* step-changed notification is emitted besides the one stop() itself emits.
C4_QuietAfterStop ==
    (phase = "stopped" /\ call.op # "stop") => (triggers = <<>> /\ events = <<>>)

\* C5: after stop() immediately followed by start(), the first step dispatched
\* is step 0 with the triggers of step 0's active rows, and no trigger of a
\* tick of the previous run is issued.
C5_RestartAtZero ==
    (phase = "firstR" /\ call.op = "onStep") =>
        /\ events = <<0>>
        /\ \A r \in Rows : RowCount(triggers, r) = IF grid[r][0] THEN 1 ELSE 0
        /\ call.stale => triggers = <<>>

\* C6: while playing, each notification carries (previous + 1) mod numSteps,
\* the first one after start() carrying 0.
C6_Successive ==
    [][(call'.op = "onStep" /\ isPlaying') =>
          events' = <<(lastNote + 1) % numSteps>>]_vars

\* C7: an onStep(dueTime) call issues exactly one trigger, carrying dueTime, to
\* every row whose cell at the new currentStep is on, none to any other row,
\* and emits one notification carrying the new currentStep.
C7_OnStepDispatch ==
    call.op = "onStep" =>
        /\ \A r \in Rows :
              RowCount(triggers, r) = IF grid[r][currentStep] THEN 1 ELSE 0
        /\ \A i \in 1 .. Len(triggers) : triggers[i][2] = call.time
        /\ events = <<currentStep>>

\* A live tick with due time 1 was dispatched with every row active.
C7_Witness ==
    /\ call.op = "onStep"
    /\ ~call.stale
    /\ isPlaying
    /\ call.time = 1
    /\ Len(triggers) = numRows

\* C8 as claimed: between two consecutive onStep calls no row is triggered
\* more than once, so no operation triggers a row that has already been
\* triggered since the last onStep.
C8_NoDuplicate == ~dupTrigger

\* C8 as amended: onStep triggers no row twice; every other trigger is the
\* single immediate one of a toggleStep that switched a cell of the playing
\* step on while playing; no other operation triggers anything.
C8_Amended ==
    /\ call.op = "onStep" => (~dupTrigger /\ \A r \in Rows : RowCount(triggers, r) <= 1)
    /\ call.op = "toggleStep" =>
          /\ Len(triggers) <= 1
          /\ triggers # <<>> =>
                /\ isPlaying
                /\ ret = "true"
                /\ currentStep \in Steps
                /\ grid[triggers[1][1]][currentStep]
    /\ call.op \notin {"onStep", "toggleStep"} => triggers = <<>>

\* A toggleStep has just triggered a row that had already sounded in this
\* occurrence of the step.
C8_Witness ==
    /\ call.op = "toggleStep"
    /\ triggers # <<>>
    /\ dupTrigger

\* C9: start() called while the audio engine is not initialized leaves the
\* transport stopped: isPlaying false and currentStep -1.
C9_NotReadyStaysStopped ==
    (call.op = "start" /\ ~initialized) => (~isPlaying /\ currentStep = -1)

\* C10: start() while already playing is a no-op: isPlaying, currentStep, the
\* registered schedule, the audio engine and the run's progress stay as they
\* are, and Tone.Transport is not started a second time.
C10_StartWhilePlaying ==
    [][(call'.op = "start" /\ isPlaying /\ transportState = "started") =>
          /\ UNCHANGED <<seqVars, audioVars, toneVars, histVars>>
          /\ transportCalls' = <<>>]_vars

\* A bpm the specification accepts: a positive finite number.
PositiveFinite(bpm) == bpm[1] = "number" /\ bpm[2] > 0

\* C11: setTempo with a non-positive or non-finite bpm leaves the tempo,
\* isPlaying and currentStep as they were.
C11_InvalidTempoRejected ==
    [][\A bpm \in BpmArgs :
          (setTempo(bpm) /\ ~PositiveFinite(bpm)) =>
              (tempo' = tempo /\ isPlaying' = isPlaying /\ currentStep' = currentStep)]_vars

\* C12: an onStep during which scheduleNote fails still triggers every active
\* row of its step and still emits the notification of that step.
C12_FailureContained ==
    call.op = "onStep" =>
        /\ \A r \in Rows : grid[r][currentStep] => RowCount(triggers, r) >= 1
        /\ events = <<currentStep>>

\* C13: a toggleStep that switches a cell of the playing step on while playing
\* issues exactly one trigger, for that row at the current time; and every
\* onStep triggers each row whose cell at the dispatched step is on, an
\* immediately triggered one included.
C13_ImmediateThenAgain ==
    [][/\ (call'.op = "toggleStep" /\ isPlaying) =>
             \A c \in Rows \X Steps, now \in Times :
                (/\ currentStep = c[2] /\ ~grid[c[1]][c[2]]
                 /\ toggleStep(c[1], c[2], now))
                    => triggers' = <<<<c[1], now>>>>
       /\ call'.op = "onStep" =>
             \A r \in Rows : grid[r][currentStep'] => RowCount(triggers', r) = 1]_vars

\* A cell of the playing step was just switched on at time 1 and its row, not
\* yet sounded in this occurrence, was triggered at once.
C13_Witness ==
    /\ call.op = "toggleStep"
    /\ ret = "true"
    /\ isPlaying
    /\ call.time = 1
    /\ Len(triggers) = 1
    /\ grid[triggers[1][1]][currentStep]
    /\ ~dupTrigger

\* C14: setStep, clearGrid and setPattern issue no trigger, and toggleStep
\* issues none unless it switches on a cell of the playing step while playing.
C14_OnlyActivatingToggleTriggers ==
    [][/\ call'.op \in {"setStep", "clearGrid", "setPattern"} => triggers' = <<>>
       /\ call'.op = "toggleStep" =>
             \A c \in CellArgs, now \in Times :
                (/\ ~(/\ InRange(c[1], c[2])
                      /\ isPlaying
                      /\ currentStep = c[2]
                      /\ ~grid[c[1]][c[2]])
                 /\ toggleStep(c[1], c[2], now))
                    => triggers' = <<>>]_vars

\* setStep has just been called while playing, and a cell of the playing step
\* is on whose row has not sounded since the step was dispatched: it was
\* switched on without a trigger.
C14_Witness ==
    /\ call.op = "setStep"
    /\ isPlaying
    /\ currentStep \in Steps
    /\ triggers = <<>>
    /\ \E r \in Rows : grid[r][currentStep] /\ r \notin firedRows

\* What toggleStep(row, step), in range, makes of a grid and an index:
\* <<grid, index, return value>>.
Toggled(g, cache, row, step) ==
    LET g1 == [g EXCEPT ![row][step] = ~g[row][step]] IN
    <<g1, updateActiveStepCache(g1, cache, row, step), g1[row][step]>>

\* C15: from every reachable grid and index and for every in-range cell,
\* toggleStep called twice gives back exactly the grid and the index it
\* started from, and the two calls return opposite booleans.
C15_ToggleTwiceRestores ==
    \A c \in Rows \X Steps :
        LET once == Toggled(grid, activeStepsCache, c[1], c[2])
            twice == Toggled(once[1], once[2], c[1], c[2]) IN
        /\ twice[1] = grid
        /\ twice[2] = activeStepsCache
        /\ twice[3] = ~once[3]

\* C16: toggleStep and setStep with an out-of-range row or step leave grid,
\* index, isPlaying and currentStep unchanged and issue no trigger; toggleStep
\* then returns false, and getStep returns false for such a cell.
C16_OutOfRangeNoOp ==
    [][/\ call'.op = "toggleStep" =>
             \A c \in CellArgs, now \in Times :
                (~InRange(c[1], c[2]) /\ toggleStep(c[1], c[2], now)) =>
                    /\ UNCHANGED <<grid, activeStepsCache, isPlaying, currentStep>>
                    /\ triggers' = <<>>
                    /\ ret' = "false"
       /\ call'.op = "setStep" =>
             \A c \in CellArgs, state \in BOOLEAN :
                (~InRange(c[1], c[2]) /\ setStep(c[1], c[2], state)) =>
                    /\ UNCHANGED <<grid, activeStepsCache, isPlaying, currentStep>>
                    /\ triggers' = <<>>
       /\ \A c \in CellArgs : ~InRange(c[1], c[2]) => getStep(c[1], c[2]) = FALSE]_vars

\* toggleStep has just returned false with as many cells on as the callers
\* keep on, while a step is playing: it switched nothing off, so its arguments
\* were out of range.
C16_Witness ==
    /\ call.op = "toggleStep"
    /\ ret = "false"
    /\ ActiveCount(grid) = MaxActive
    /\ isPlaying
    /\ currentStep \in Steps

\* C17: after stop(), from any state, isPlaying is false, currentStep is -1,
\* and the call has emitted exactly one notification, carrying -1, and no
\* trigger.
C17_StopResets ==
    call.op = "stop" =>
        /\ ~isPlaying
        /\ currentStep = -1
        /\ events = <<-1>>
        /\ triggers = <<>>

\* stop() has just stopped a started transport that had a schedule and a
\* pattern to play.
C17_Witness ==
    /\ call.op = "stop"
    /\ transportCalls = <<"stop">>
    /\ transportState = "stopped"
    /\ scheduled # {}
    /\ grid # EmptyGrid

\* C18: in every reachable state, isPlaying false implies currentStep = -1.
C18_StoppedMeansNoStep == ~isPlaying => currentStep = -1

C20_NoStepSkipped ==
    [][gcall' = "scheduler" =>
          LET d == (60000 \div GuideBpm) \div 4
              all == (IF lastCommit = <<>> THEN <<>> ELSE <<lastCommit>>) \o committed' IN
          /\ \A i \in 1 .. (Len(all) - 1) :
                /\ all[i + 1][1] = (all[i][1] + 1) % numSteps
                /\ all[i + 1][2] = all[i][2] + d
          /\ lastCommit' # <<>>
          /\ lastCommit'[2] + d >= currentTime' + ScheduleAheadMs]_vars

\* A timer that fired late made its run commit two steps at once, past the
\* first pass of the loop.
C20_Witness ==
    /\ gcall = "scheduler"
    /\ Len(committed) >= 2
    /\ commits > numSteps

\* C23: in every state an operation leaves behind, and so after every grid
\* mutation, the dispatch onStep would perform for any step s triggers exactly
\* the rows whose cell at s is on, once each; and the index an onStep has just
\* read agrees with the grid at every step.
C23_MutationSeenByDispatch ==
    /\ \A s \in Steps, t \in Times :
          LET trig == StepTriggers(activeStepsCache, s, t) IN
          \A r \in Rows : RowCount(trig, r) = IF grid[r][s] THEN 1 ELSE 0
    /\ call.op = "onStep" =>
          /\ TriggerRows(triggers) = ActiveRowSet(currentStep)
          /\ \A s \in Steps : SeqRange(CacheGet(activeStepsCache, s)) = ActiveRowSet(s)

\* During playback a setStep has just left exactly one cell on, at the step
\* the next onStep dispatches, in a step occurrence where nothing had sounded.
C23_Witness ==
    /\ call.op = "setStep"
    /\ isPlaying
    /\ currentStep \in Steps
    /\ firedRows = {}
    /\ ActiveCount(grid) = 1
    /\ \E r \in Rows : grid[r][NextStep(currentStep)]

\* setStep in range, as a function of the grid and the index it is applied to:
\* <<grid, index>>.
SetTo(g, cache, row, step, state) ==
    LET g1 == [g EXCEPT ![row][step] = state] IN
    <<g1, updateActiveStepCache(g1, cache, row, step)>>

\* C24: toggleStep, setStep, clearGrid and setPattern change the grid and the
\* index by the same function of grid, index and arguments whether the
\* sequencer is playing or stopped, and leave isPlaying and currentStep alone.
C24_SameEffectInEitherState ==
    [][/\ call'.op = "toggleStep" =>
             \A c \in CellArgs, now \in Times :
                toggleStep(c[1], c[2], now) =>
                   <<grid', activeStepsCache'>> =
                      IF InRange(c[1], c[2])
                      THEN LET tg == Toggled(grid, activeStepsCache, c[1], c[2]) IN
                           <<tg[1], tg[2]>>
                      ELSE <<grid, activeStepsCache>>
       /\ call'.op = "setStep" =>
             \A c \in CellArgs, v \in BOOLEAN :
                setStep(c[1], c[2], v) =>
                   <<grid', activeStepsCache'>> =
                      IF InRange(c[1], c[2])
                      THEN SetTo(grid, activeStepsCache, c[1], c[2], v)
                      ELSE <<grid, activeStepsCache>>
       /\ call'.op = "clearGrid" => (grid' = EmptyGrid /\ activeStepsCache' = <<>>)
       /\ call'.op = "setPattern" =>
             \A pattern \in Patterns :
                setPattern(pattern) =>
                   <<grid', activeStepsCache'>> =
                      IF Len(pattern) = numRows
                      THEN <<PatternGrid(grid, pattern),
                             updateActiveStepsCache(PatternGrid(grid, pattern))>>
                      ELSE <<grid, activeStepsCache>>
       /\ call'.op \in {"toggleStep", "setStep", "clearGrid", "setPattern"} =>
             UNCHANGED <<isPlaying, currentStep>>]_vars

\* clearGrid was just called during playback, at a step whose rows had
\* sounded, and emptied the grid.
C24_Witness ==
    /\ call.op = "clearGrid"
    /\ isPlaying
    /\ currentStep \in Steps
    /\ firedRows # {}
    /\ grid = EmptyGrid

\* C25: clearGrid leaves every cell false and the index empty, so that no
\* step has anything to dispatch; and an onStep on a grid with no cell on
\* issues no trigger.
C25_ClearGridSilences ==
    /\ call.op = "clearGrid" =>
          /\ \A r \in Rows, s \in Steps : ~grid[r][s]
          /\ DOMAIN activeStepsCache = {}
          /\ \A s \in Steps, t \in Times : StepTriggers(activeStepsCache, s, t) = <<>>
    /\ (call.op = "onStep" /\ ActiveCount(grid) = 0) => triggers = <<>>

\* clearGrid was just called during playback at a step where every row had
\* sounded.
C25_Witness ==
    /\ call.op = "clearGrid"
    /\ isPlaying
    /\ firedRows = Rows
    /\ ActiveCount(grid) = 0

C27_OnlyOneCellOneEntry ==
    \A c \in Rows \X Steps :
        \A after \in {<<Toggled(grid, activeStepsCache, c[1], c[2])[1],
                         Toggled(grid, activeStepsCache, c[1], c[2])[2]>>,
                       SetTo(grid, activeStepsCache, c[1], c[2], TRUE),
                       SetTo(grid, activeStepsCache, c[1], c[2], FALSE)} :
            /\ \A d \in Rows \X Steps : d # c => after[1][d[1]][d[2]] = grid[d[1]][d[2]]
            /\ \A s \in Steps \ {c[2]} :
                  /\ s \in DOMAIN after[2] <=> s \in DOMAIN activeStepsCache
                  /\ CacheGet(after[2], s) = CacheGet(activeStepsCache, s)
            /\ DOMAIN after[2] \subseteq Steps

\* A setStep has just been applied while playing to a grid with MaxActive
\* cells on, spread over more than one step.
C27_Witness ==
    /\ call.op = "setStep"
    /\ isPlaying
    /\ ActiveCount(grid) = MaxActive
    /\ Cardinality(DOMAIN activeStepsCache) >= 2

\* C28: currentStep is -1 or a step of the grid, and every onStep moves it to
\* the next step, from -1 and from the last step to 0.
C28_StepAdvance ==
    /\ [](currentStep = -1 \/ currentStep \in Steps)
    /\ [][call'.op = "onStep" =>
             currentStep' = IF currentStep = -1 \/ currentStep = numSteps - 1
                            THEN 0 ELSE currentStep + 1]_vars

\* During playback an onStep has just advanced currentStep to the last step.
C28_Witness ==
    /\ call.op = "onStep"
    /\ ~call.stale
    /\ isPlaying
    /\ phase = "running"
    /\ currentStep = numSteps - 1

\* C29: toggleStep on an in-range cell returns the negation of the state the
\* cell had, which is the state the cell has, and getStep returns, afterwards.
C29_ToggleReturnsNewState ==
    [][call'.op = "toggleStep" =>
          \A c \in Rows \X Steps, now \in Times :
             toggleStep(c[1], c[2], now) =>
                /\ ret' = Bool2Str(~grid[c[1]][c[2]])
                /\ ret' = Bool2Str(getStep(c[1], c[2])')]_vars

\* A toggleStep has just switched a cell off while playing.
C29_Witness ==
    /\ call.op = "toggleStep"
    /\ isPlaying
    /\ ret = "false"
    /\ ActiveCount(grid) = MaxActive - 1
    /\ triggers = <<>>

\* C30: from every reachable grid and index, for every in-range cell and
\* state, setStep leaves the cell in that state, and a second identical call
\* leaves grid and index as the first did, no row occurring twice in an entry.
C30_SetStepIdempotent ==
    \A c \in Rows \X Steps, v \in BOOLEAN :
        LET once == SetTo(grid, activeStepsCache, c[1], c[2], v)
            twice == SetTo(once[1], once[2], c[1], c[2], v) IN
        /\ once[1][c[1]][c[2]] = v
        /\ twice = once
        /\ \A s \in Steps, r \in Rows :
              Cardinality({i \in 1 .. Len(CacheGet(twice[2], s)) :
                              CacheGet(twice[2], s)[i] = r}) <= 1

\* A setStep has just been applied with the step of the playing position
\* holding every row in its index entry.
C30_Witness ==
    /\ call.op = "setStep"
    /\ currentStep \in Steps
    /\ Len(CacheGet(activeStepsCache, currentStep)) = numRows
    /\ ~isPlaying

C31_NoRowTwice ==
    /\ \A s \in DOMAIN activeStepsCache :
          \A i, j \in 1 .. Len(activeStepsCache[s]) :
             activeStepsCache[s][i] = activeStepsCache[s][j] => i = j
    /\ call.op = "onStep" =>
          \A i, j \in 1 .. Len(triggers) : triggers[i][1] = triggers[j][1] => i = j

\* A setPattern during playback has just left a step with every row in its
\* entry.
C31_Witness ==
    /\ call.op = "setPattern"
    /\ isPlaying
    /\ \E s \in Steps : Len(CacheGet(activeStepsCache, s)) = numRows

\* C32: an onStep leaves the grid, the index and isPlaying as they were.
C32_OnStepFrame ==
    [][call'.op = "onStep" => UNCHANGED <<grid, activeStepsCache, isPlaying>>]_vars

\* A tick delivered after stop() has dispatched a row and the sequencer is
\* still not playing.
C32_Witness ==
    /\ call.op = "onStep"
    /\ call.stale
    /\ ~isPlaying
    /\ triggers # <<>>
    /\ currentStep = 0

\* C33: start() and stop() leave the grid and the index as they were.
C33_StartStopFrame ==
    [][call'.op \in {"start", "stop"} => UNCHANGED <<grid, activeStepsCache>>]_vars

\* The first tick after a stop() followed by start() has dispatched every row.
C33_Witness ==
    /\ call.op = "onStep"
    /\ ~call.stale
    /\ phase = "firstR"
    /\ isPlaying
    /\ Len(triggers) = numRows

\* C34: toggleStep, setStep, clearGrid, setPattern, getStep and setTempo leave
\* isPlaying and currentStep as they were, playing or stopped.
C34_TransportUntouched ==
    [][call'.op \in {"toggleStep", "setStep", "clearGrid", "setPattern", "getStep", "setTempo"}
          => UNCHANGED <<isPlaying, currentStep>>]_vars

\* The tempo was just changed during playback, in the middle of the loop, on a
\* grid with a cell on.
C34_Witness ==
    /\ call.op = "setTempo"
    /\ isPlaying
    /\ currentStep = numSteps - 1
    /\ tempo = Bpm(SlowTempo)
    /\ ActiveCount(grid) > 0

\* C35: at most one repeating step callback is registered with the transport
\* at any time, and after cleanup() none is and scheduleId is null.
C35_SingleCallback ==
    /\ Cardinality(scheduled) <= 1
    /\ call.op = "cleanup" => (scheduled = {} /\ scheduleId = 0)

\* C36: every entry of the index holds at least one row, and a step has an
\* entry only if some row is active at it.
C36_NoEmptyEntry ==
    \A s \in DOMAIN activeStepsCache :
        /\ Len(activeStepsCache[s]) > 0
        /\ \E r \in Rows : grid[r][s]

\* A setStep has just switched off the last active cell, at a step whose row
\* had sounded, leaving the index without an entry.
C36_Witness ==
    /\ call.op = "setStep"
    /\ isPlaying
    /\ firedRows # {}
    /\ DOMAIN activeStepsCache = {}
    /\ ActiveCount(grid) = 0

====
